---- MODULE Spec2Model ----
(***************************************************************************)
(* Model of EXE.py: the window ExeBuilderApp (file selection, tool         *)
(* selection, the dynamic checkbox panel) and its build handler, with the  *)
(* dependency check ensure_installed.  External processes, the import      *)
(* system, the temporary-file system and the message box are the           *)
(* environment: their outcomes are inputs of build_exe, and what the       *)
(* handler asked of them is recorded in launched / written / warned.       *)
(*                                                                         *)
(* A path is a sequence of one-character strings, so that basename and     *)
(* splitext are computed; <<>> stands for the falsy values None and "".    *)
(* Tool indices are 0-based as in the source; sequences are 1-based, hence *)
(* the "+ 1" at every table lookup.                                        *)
(***************************************************************************)
EXTENDS Integers, Sequences, FiniteSets, TLC

VARIABLES
    file_path,     \* self.file_path
    method_idx,    \* self.method_box.currentIndex()
    checkboxes,    \* self.checkboxes: records [text, checked]
    flags_layout,  \* widgets of self.flags_layout: records [kind, text]
    status,        \* self.status.text()
    handler,       \* the event handled last
    dep,           \* the ensure_installed call of the last event
    flags,         \* local "flags" of the last build_exe
    launched,      \* external processes started by the last event, in order
    written,       \* files written by the last event
    warned,        \* message boxes shown by the last event
    app            \* "running", or "aborted" once an exception left a slot

vars == <<file_path, method_idx, checkboxes, flags_layout, status, handler,
          dep, flags, launched, written, warned, app>>

\* ------------------------------------------------------------------ bounds

\* Number of distinct paths the file dialog can return.
MaxFiles == 2

\* ------------------------------------------------------------------ tables

TOOLS ==
    << <<"Nuitka", "nuitka">>,
       <<"PyInstaller", "pyinstaller">>,
       <<"cx_Freeze", "cx_Freeze">>,
       <<"py2exe (Windows only)", "py2exe">>,
       <<"pyoxidizer", "pyoxidizer">>,
       <<"auto-py-to-exe", "auto-py-to-exe">> >>

\* (the dash of the first entry is written in ASCII)
TOOL_EXPLAIN ==
    << "Nuitka (best protection: compiles to C/machine code) - Use with PyQt5 via Qt plugin!",
       "PyInstaller (easy, common, cross-platform)",
       "cx_Freeze (simple, multiplatform)",
       "py2exe (Windows only, legacy)",
       "pyoxidizer (advanced, single binary)",
       "auto-py-to-exe (PyInstaller GUI, beginner-friendly)" >>

TOOL_FLAGS ==
    << \* Nuitka
       << <<"--onefile", "Bundle into one executable">>,
          <<"--standalone", "Include all dependencies (portable)">>,
          <<"--show-progress", "Show build progress">>,
          <<"--noinclude-pytest-mode=nofollow", "Smaller EXE (strip pytest support)">>,
          <<"--mingw64", "Use MinGW64 as C compiler (Windows only)">>,
          <<"--windows-icon-from-ico=app.ico", "Custom app icon (replace path as needed)">>,
          <<"--enable-plugin=pyqt5", "Enable PyQt5 plugin support for Qt GUIs in Nuitka">>,
          <<"--include-qt-plugins=sensible", "Bundle sensible set of Qt plugins (most GUIs)">> >>,
       \* PyInstaller
       << <<"--onefile", "Bundle into a single exe">>,
          <<"--console", "Enable console window (needed for input())">>,
          <<"--windowed", "No console window (GUI apps only)">>,
          <<"--icon=app.ico", "Custom app icon (replace path as needed)">>,
          <<"--clean", "Clean up temp files first">>,
          <<"--add-data=data.file;.", "Add external data file (replace as needed)">> >>,
       \* cx_Freeze
       << <<"base=None", "Console app (allows input())">>,
          <<"base=Win32GUI", "GUI app (no console)">>,
          <<"include_files", "Add extra files (use in setup.py)">>,
          <<"silent=True", "Suppress cx_Freeze output">> >>,
       \* py2exe
       << <<"console", "Console app (allows input())">>,
          <<"windows", "GUI/windowed app">>,
          <<"bundle_files=1", "Try single exe (not recommended for complex apps)">>,
          <<"compressed=True", "Compress the library zip">> >>,
       \* pyoxidizer
       << <<"single_binary=True", "Bundle everything in one binary (edit oxidizer.bzl)">>,
          <<"--release", "Release mode build (smaller binary)">>,
          <<"--debug", "Debug mode build">> >>,
       \* auto-py-to-exe
       << >> >>

\* The indices the combo box offers: one item per TOOL_EXPLAIN entry.
ToolIndices == 0 .. (Len(TOOL_EXPLAIN) - 1)

\* ------------------------------------------------------------- environment

\* sys.executable
sys_executable == "python"

\* What the file dialog can hand back; <<>> is a cancelled dialog ("").
DialogPaths ==
    << <<"/", "t", "/", "a", ".", "p", "y">>,
       <<"m", ".", "p", "y">>,
       <<"/", "d", ".", "x", "/", ".", "r", "c">>,
       <<"b", ".", "t", ".", "p", "y">> >>

DialogResults == {<<>>} \cup {DialogPaths[i] : i \in 1 .. MaxFiles}

\* __import__(tool): succeeds, raises ImportError, or raises something else
\* while the package's top-level code runs.
ImportOutcomes == {"ok", "ImportError", "Exception"}

\* A started process: exits 0, exits nonzero, or cannot be started at all.
ProcOutcomes == {"ok", "nonzero", "raise"}

\* tempfile.mkdtemp() and open(..., "w") together: fine, or OSError.
IoOutcomes == {"ok", "OSError"}

\* tempfile.mkdtemp(): the directory it returns, as one symbolic name.
temp_dir == "/tmp/tmpdir"

\* ---------------------------------------------------------------- strings

RECURSIVE Str(_)
\* A path as the string it is.
Str(p) == IF p = <<>> THEN "" ELSE Head(p) \o Str(Tail(p))

RECURSIVE LastIndexOf(_, _)
\* The largest i with p[i] = c, or 0.
LastIndexOf(p, c) ==
    IF p = <<>> THEN 0
    ELSE IF p[Len(p)] = c THEN Len(p)
    ELSE LastIndexOf(SubSeq(p, 1, Len(p) - 1), c)

\* os.path.basename(p): what follows the last "/".
basename(p) == SubSeq(p, LastIndexOf(p, "/") + 1, Len(p))

RECURSIVE LeadingDots(_)
\* How many "." the name starts with (splitext does not count them).
LeadingDots(n) ==
    IF n # <<>> /\ Head(n) = "." THEN 1 + LeadingDots(Tail(n)) ELSE 0

\* os.path.splitext(n)[0] for a name n without "/": cut at the last "."
\* unless that dot belongs to the leading dots of the name.
splitext_root(n) ==
    LET dot == LastIndexOf(n, ".")
    IN  IF dot > LeadingDots(n) THEN SubSeq(n, 1, dot - 1) ELSE n

\* f"{flag} ({explanation})"
checkbox_text(fd) == fd[1] \o " (" \o fd[2] \o ")"

\* get_install_commands(tool)
get_install_commands(tool) ==
    "\n" \o tool \o " is required.\n\nTry these commands:\n    pip install "
    \o tool \o "\nor:\n    python -m pip install " \o tool \o "\n"

\* str(e) of the exception a step raised.  The text comes from the library
\* that raised it; it is modelled per kind of failure (the command line that
\* CalledProcessError quotes is left out of the text).
str_e(kind) ==
    CASE kind = "nonzero" -> "Command returned non-zero exit status 1."
      [] kind = "raise"   -> "[Errno 2] No such file or directory"
      [] kind = "OSError" -> "[Errno 28] No space left on device"

\* --------------------------------------------------------------- processes

\* One external process: who started it, its argument vector, its working
\* directory ("" = inherited), whether the caller waits for its exit
\* (subprocess.run) or not (subprocess.Popen), and how it went.
Proc(by, cmd, cwd, wait, outcome) ==
    [by |-> by, cmd |-> cmd, cwd |-> cwd, wait |-> wait, outcome |-> outcome]

\* The call made no ensure_installed.
NoDep == [called |-> FALSE, imp |-> "ok", exc |-> FALSE, ret |-> FALSE]

\* ------------------------------------------------------- ensure_installed

\* The pip command of ensure_installed.
pip_cmd(tool) == <<sys_executable, "-m", "pip", "install", tool>>

\* Mutant of ensure_installed: a failed installer is not told apart from a
\* successful one (the inner except clause is missing).
ensure_installed_no_except(tool, parent_widget, imp, pip) ==
    CASE imp = "ok" ->
           [called |-> TRUE, imp |-> imp, exc |-> FALSE, ret |-> TRUE,
            procs |-> <<>>, warned |-> <<>>]
      [] imp = "ImportError" ->
           [called |-> TRUE, imp |-> imp, exc |-> FALSE, ret |-> TRUE,
            procs |-> <<Proc("ensure_installed", pip_cmd(tool), "", TRUE, pip)>>,
            warned |-> <<>>]
      [] OTHER ->
           [called |-> TRUE, imp |-> imp, exc |-> TRUE, ret |-> FALSE,
            procs |-> <<>>, warned |-> <<>>]

\* ensure_installed(tool, parent_widget) under the outcome imp of the import
\* and, when pip is run, the outcome pip of that process.  exc: an exception
\* left the function; ret: the value returned otherwise.
ensure_installed(tool, parent_widget, imp, pip) ==
    CASE imp = "ok" ->
           [called |-> TRUE, imp |-> imp, exc |-> FALSE, ret |-> TRUE,
            procs |-> <<>>, warned |-> <<>>]
      [] imp = "ImportError" ->
           LET run == Proc("ensure_installed", pip_cmd(tool), "", TRUE, pip)
           IN  IF pip = "ok"
               THEN [called |-> TRUE, imp |-> imp, exc |-> FALSE, ret |-> TRUE,
                     procs |-> <<run>>, warned |-> <<>>]
               ELSE [called |-> TRUE, imp |-> imp, exc |-> FALSE, ret |-> FALSE,
                     procs |-> <<run>>,
                     warned |-> IF parent_widget
                                THEN <<get_install_commands(tool)>>
                                ELSE <<>>]
      [] OTHER ->
           \* not an ImportError: no except clause of the function takes it
           [called |-> TRUE, imp |-> imp, exc |-> TRUE, ret |-> FALSE,
            procs |-> <<>>, warned |-> <<>>]

\* ------------------------------------------------------------ the panel

\* Mutant of remove_widgets: the loop runs forward, so that every removal
\* shifts the next item under the index already passed, which survives.
remove_widgets_forward(layout) ==
    [k \in 1 .. (Len(layout) \div 2) |-> layout[2 * k]]

RECURSIVE remove_widgets(_)
\* The first loop of show_flag_checkboxes: from the last item to the first,
\* every item that is a widget is taken out of the layout.
remove_widgets(layout) ==
    IF layout = <<>> THEN <<>>
    ELSE LET rest == remove_widgets(SubSeq(layout, 1, Len(layout) - 1))
             w    == layout[Len(layout)]
         IN  IF w.widget THEN rest ELSE Append(rest, w)

\* Mutant of new_checkboxes: the boxes of the old panel are reused by
\* position and keep their checked state.
new_checkboxes_reused(old, idx) ==
    [i \in 1 .. Len(TOOL_FLAGS[idx + 1]) |->
        [text |-> checkbox_text(TOOL_FLAGS[idx + 1][i]),
         checked |-> i <= Len(old) /\ old[i].checked]]

\* self.checkboxes after show_flag_checkboxes: the old list is dropped and
\* one unchecked QCheckBox is made per flag descriptor of tool idx.
new_checkboxes(old, idx) ==
    [i \in 1 .. Len(TOOL_FLAGS[idx + 1]) |->
        [text |-> checkbox_text(TOOL_FLAGS[idx + 1][i]), checked |-> FALSE]]

\* self.flags_layout after show_flag_checkboxes.
new_layout(layout, idx) ==
    remove_widgets(layout)
    \o [i \in 1 .. Len(TOOL_FLAGS[idx + 1]) |->
          [widget |-> TRUE, kind |-> "QCheckBox",
           text |-> checkbox_text(TOOL_FLAGS[idx + 1][i])]]
    \o (IF idx = 5
        THEN <<[widget |-> TRUE, kind |-> "QLabel",
                text |-> "Use the GUI to set all options for PyInstaller visually."]>>
        ELSE <<>>)

\* ------------------------------------------------------------- build_exe

\* Mutant of no_file: the check for a missing file is gone.
no_file_unchecked(fp) == FALSE

\* "not self.file_path"
no_file(fp) == fp = <<>>

\* Mutant of not_available: the result of the dependency check is ignored.
not_available_ignored(d) == FALSE

\* "not ensure_installed(tool_name, self)" for a call that returned.
not_available(d) == ~d.ret

RECURSIVE collect_flags(_, _, _)
\* The loop over enumerate(self.checkboxes), from position i on: the token at
\* position i of the selected tool's descriptors, for every checked box.
collect_flags(idx, cbs, i) ==
    IF i > Len(cbs) THEN <<>>
    ELSE (IF cbs[i].checked THEN <<TOOL_FLAGS[idx + 1][i][1]>> ELSE <<>>)
         \o collect_flags(idx, cbs, i + 1)

\* "x in flags"
in_flags(x, fl) == \E i \in 1 .. Len(fl) : fl[i] = x

nuitka_cmd(fp, fl) == <<sys_executable, "-m", "nuitka", Str(fp)>> \o fl

\* Mutant of pyinstaller_cmd: the fixed argument is put before the flags.
pyinstaller_cmd_hidden_first(fp, fl) ==
    <<sys_executable, "-m", "PyInstaller", Str(fp), "--hidden-import=colorama">> \o fl

pyinstaller_cmd(fp, fl) ==
    <<sys_executable, "-m", "PyInstaller", Str(fp)>> \o fl
    \o <<"--hidden-import=colorama">>

\* The cx_Freeze descriptor text for a base argument ("" or the GUI base).
cx_freeze_text(fp, base_arg) ==
    "\nfrom cx_Freeze import setup, Executable\nsetup(\n    name=\""
    \o Str(splitext_root(basename(fp)))
    \o "\",\n    version=\"0.1\",\n    executables=[Executable(\""
    \o Str(fp) \o "\"" \o base_arg \o ")]\n)\n"

cx_freeze_setup_code(fp, fl) ==
    cx_freeze_text(fp, IF in_flags("base=Win32GUI", fl)
                       THEN ", base=\"Win32GUI\"" ELSE "")

\* The py2exe descriptor text for a mode keyword.
py2exe_text(fp, mode) ==
    "\nfrom distutils.core import setup\nimport py2exe\nsetup("
    \o mode \o "=['" \o Str(fp) \o "'])\n"

\* Mutant of py2exe_console: the default for "neither checked" is missing.
py2exe_console_no_default(fl) == in_flags("console", fl)

\* The value of "console" when the py2exe descriptor is formatted.
py2exe_console(fl) ==
    LET console == in_flags("console", fl)
        windows == in_flags("windows", fl)
    IN  IF ~(console \/ windows) THEN TRUE ELSE console

py2exe_setup_code(fp, fl) ==
    py2exe_text(fp, IF py2exe_console(fl) THEN "console" ELSE "windows")

pyoxidizer_init_cmd(fp, fl) == <<"pyoxidizer", "init-config", Str(fp)>>

\* Mutant of pyoxidizer_build_cmd: every collected flag is passed through.
pyoxidizer_build_cmd_all_flags(fp, fl) == <<"pyoxidizer", "build">> \o fl

pyoxidizer_build_cmd(fp, fl) ==
    <<"pyoxidizer", "build">>
    \o (IF in_flags("--release", fl) THEN <<"--release">> ELSE <<>>)
    \o (IF in_flags("--debug", fl) THEN <<"--debug">> ELSE <<>>)

\* Mutant of failed: the exception is swallowed and success is reported.
failed_swallowed(procs, files, kind) ==
    [status |-> "EXE built.", procs |-> procs, files |-> files]

\* What the try block leaves behind when a step raised kind.
failed(procs, files, kind) ==
    [status |-> "Build failed: " \o str_e(kind), procs |-> procs, files |-> files]

\* What it leaves behind when it ran through.
built(procs, files, text) == [status |-> text, procs |-> procs, files |-> files]

\* One blocking subprocess.run(cmd, check=True) of the try block.
run(cmd, cwd, outcome) == Proc("build_exe", cmd, cwd, TRUE, outcome)

\* A generated-descriptor build: mkdtemp, write the descriptor, run it there.
descriptor_build(name, text, arg, io, p1, done) ==
    LET setup_path == temp_dir \o "/" \o name
        file == [path |-> setup_path, text |-> text]
        proc == run(<<sys_executable, setup_path, arg>>, temp_dir, p1)
    IN  IF io # "ok" THEN failed(<<>>, <<>>, io)
        ELSE IF p1 # "ok" THEN failed(<<proc>>, <<file>>, p1)
        ELSE built(<<proc>>, <<file>>, done)

\* The try block of build_exe: the branch of tool idx, with the outcome io of
\* the temporary files and p1, p2 of the first and second process.
dispatch(idx, fp, fl, io, p1, p2) ==
    CASE idx = 0 ->
           LET proc == run(nuitka_cmd(fp, fl), "", p1)
           IN  IF p1 # "ok" THEN failed(<<proc>>, <<>>, p1)
               ELSE built(<<proc>>, <<>>, "EXE built with Nuitka (output folder).")
      [] idx = 1 ->
           LET proc == run(pyinstaller_cmd(fp, fl), "", p1)
           IN  IF p1 # "ok" THEN failed(<<proc>>, <<>>, p1)
               ELSE built(<<proc>>, <<>>, "EXE built with PyInstaller (dist folder).")
      [] idx = 2 ->
           descriptor_build("setup.py", cx_freeze_setup_code(fp, fl), "build", io, p1,
                            "EXE built with cx_Freeze (build folder in temp dir).")
      [] idx = 3 ->
           descriptor_build("setup_py2exe.py", py2exe_setup_code(fp, fl), "py2exe", io, p1,
                            "EXE built with py2exe (dist folder in temp dir).")
      [] idx = 4 ->
           LET init  == run(pyoxidizer_init_cmd(fp, fl), "", p1)
               build == run(pyoxidizer_build_cmd(fp, fl), "", p2)
           IN  IF p1 # "ok" THEN failed(<<init>>, <<>>, p1)
               ELSE IF p2 # "ok" THEN failed(<<init, build>>, <<>>, p2)
               ELSE built(<<init, build>>, <<>>,
                          "EXE built with pyoxidizer (see build artifacts).")
      [] idx = 5 ->
           \* subprocess.Popen: only a failure to start is seen here
           LET proc == Proc("build_exe", <<"auto-py-to-exe">>, "", FALSE, p1)
           IN  IF p1 = "raise" THEN failed(<<proc>>, <<>>, p1)
               ELSE built(<<proc>>, <<>>,
                          "Opened auto-py-to-exe GUI. Use it to build your EXE.")

\* build_exe as a whole, from the state it reads and the environment's
\* outcomes; escaped: an exception left the slot.
build_result(fp, idx, cbs, st, imp, pip, io, p1, p2) ==
    IF no_file(fp)
    THEN [status |-> "Please select a Python file first.", dep |-> NoDep,
          flags |-> <<>>, procs |-> <<>>, files |-> <<>>, warned |-> <<>>,
          escaped |-> FALSE]
    ELSE LET tool_name == TOOLS[idx + 1][2]
             d  == ensure_installed(tool_name, TRUE, imp, pip)
             dv == [called |-> d.called, imp |-> d.imp, exc |-> d.exc, ret |-> d.ret]
         IN  IF d.exc
             THEN [status |-> st, dep |-> dv, flags |-> <<>>, procs |-> d.procs,
                   files |-> <<>>, warned |-> d.warned, escaped |-> TRUE]
             ELSE IF not_available(d)
             THEN [status |-> tool_name \o " not available.", dep |-> dv,
                   flags |-> <<>>, procs |-> d.procs, files |-> <<>>,
                   warned |-> d.warned, escaped |-> FALSE]
             ELSE LET fl == collect_flags(idx, cbs, 1)
                      r  == dispatch(idx, fp, fl, io, p1, p2)
                  IN  [status |-> r.status, dep |-> dv, flags |-> fl,
                       procs |-> d.procs \o r.procs, files |-> r.files,
                       warned |-> d.warned, escaped |-> FALSE]

\* ----------------------------------------------------------------- events

\* What an event that starts nothing leaves in the per-event records.
Quiet ==
    /\ dep' = NoDep
    /\ flags' = <<>>
    /\ launched' = <<>>
    /\ written' = <<>>
    /\ warned' = <<>>

Init ==
    /\ file_path = <<>>
    /\ method_idx = 0
    /\ checkboxes = new_checkboxes(<<>>, 0)
    /\ flags_layout = new_layout(<<>>, 0)
    /\ status = "Select a Python script and builder. Then check attributes to use."
    /\ handler = "__init__"
    /\ dep = NoDep
    /\ flags = <<>>
    /\ launched = <<>>
    /\ written = <<>>
    /\ warned = <<>>
    /\ app = "running"

\* The select button: the dialog returns a path, or "" when cancelled.
select_file ==
    /\ app = "running"
    /\ \E file \in DialogResults :
          IF file # <<>>
          THEN /\ file_path' = file
               /\ status' = "Selected: " \o Str(basename(file))
          ELSE UNCHANGED <<file_path, status>>
    /\ handler' = "select_file"
    /\ Quiet
    /\ UNCHANGED <<method_idx, checkboxes, flags_layout, app>>

\* The user picks another item of the combo box: currentIndexChanged runs
\* show_flag_checkboxes.
show_flag_checkboxes ==
    /\ app = "running"
    /\ \E idx \in ToolIndices \ {method_idx} :
          /\ method_idx' = idx
          /\ checkboxes' = new_checkboxes(checkboxes, idx)
          /\ flags_layout' = new_layout(flags_layout, idx)
    /\ handler' = "show_flag_checkboxes"
    /\ Quiet
    /\ UNCHANGED <<file_path, status, app>>

\* The user clicks one checkbox of the panel.
toggle ==
    /\ app = "running"
    /\ \E i \in 1 .. Len(checkboxes) :
          checkboxes' = [checkboxes EXCEPT ![i].checked = ~@]
    /\ handler' = "toggle"
    /\ Quiet
    /\ UNCHANGED <<file_path, method_idx, flags_layout, status, app>>

\* The outcomes the environment can give a step of build_exe; a step that is
\* not reached in this run has the single outcome "ok" (it is never read).
outcomes_of(reached, all) == IF reached THEN all ELSE {"ok"}

\* The build button.
build_exe ==
    /\ app = "running"
    /\ \E imp \in outcomes_of(file_path # <<>>, ImportOutcomes) :
       \E pip \in outcomes_of(file_path # <<>> /\ imp = "ImportError", ProcOutcomes) :
       \E io \in outcomes_of(file_path # <<>> /\ imp # "Exception" /\ pip = "ok"
                             /\ method_idx \in {2, 3}, IoOutcomes) :
       \E p1 \in outcomes_of(file_path # <<>> /\ imp # "Exception" /\ pip = "ok"
                             /\ io = "ok", ProcOutcomes) :
       \E p2 \in outcomes_of(file_path # <<>> /\ imp # "Exception" /\ pip = "ok"
                             /\ method_idx = 4 /\ p1 = "ok", ProcOutcomes) :
          LET r == build_result(file_path, method_idx, checkboxes, status,
                                imp, pip, io, p1, p2)
          IN  /\ status' = r.status
              /\ dep' = r.dep
              /\ flags' = r.flags
              /\ launched' = r.procs
              /\ written' = r.files
              /\ warned' = r.warned
              /\ app' = IF r.escaped THEN "aborted" ELSE "running"
    /\ handler' = "build_exe"
    /\ UNCHANGED <<file_path, method_idx, checkboxes, flags_layout>>

Next == select_file \/ show_flag_checkboxes \/ toggle \/ build_exe

Spec == Init /\ [][Next]_vars

\* ------------------------------------------------------------- properties

\* The last event was a build attempt.
AfterBuild == handler = "build_exe"

\* The last build attempt got past the dependency check.
Proceeded == AfterBuild /\ dep.called /\ ~dep.exc /\ dep.ret

\* The package identifier of the selected tool.
ToolName == TOOLS[method_idx + 1][2]

\* The checkbox of token t in the current panel is checked.
CheckedToken(t) ==
    \E i \in DOMAIN checkboxes :
        checkboxes[i].checked /\ TOOL_FLAGS[method_idx + 1][i][1] = t

\* The positions of the checked boxes, and the tokens registered at those
\* positions for the selected tool, in catalog order.
CheckedPositions == {i \in DOMAIN checkboxes : checkboxes[i].checked}

ExpectedFlags ==
    [k \in 1 .. Cardinality(CheckedPositions) |->
        LET i == CHOOSE j \in CheckedPositions :
                     Cardinality({m \in CheckedPositions : m < j}) = k - 1
        IN  TOOL_FLAGS[method_idx + 1][i][1]]

\* The processes of the last event that build_exe itself started, and those
\* that ensure_installed started.
BuildProcs == LET T(p) == p.by = "build_exe" IN SelectSeq(launched, T)

InstallProcs == LET T(p) == p.by = "ensure_installed" IN SelectSeq(launched, T)

\* C1: a build attempt with no file selected starts no process, writes no
\* file, shows no dialog, makes no dependency check, sets the status to
\* 'Please select a Python file first.' and leaves the selection, the tool
\* index and the checkboxes as they were.
C1_NoFileNoProcess ==
    [][(handler' = "build_exe" /\ file_path = <<>>) =>
          /\ launched' = <<>>
          /\ written' = <<>>
          /\ warned' = <<>>
          /\ ~dep'.called
          /\ status' = "Please select a Python file first."
          /\ file_path' = file_path
          /\ method_idx' = method_idx
          /\ checkboxes' = checkboxes
          /\ flags_layout' = flags_layout
          /\ app' = "running"]_vars

C1_Witness ==
    /\ AfterBuild
    /\ file_path = <<>>
    /\ method_idx = 1
    /\ CheckedToken("--onefile")
    /\ status = "Please select a Python file first."

\* C2: when ensure_installed returns false, build_exe starts no process of
\* its own (only the installer ran), writes no descriptor, collects no flags
\* and ends with the status '<tool> not available.'.
C2_UnavailableNoBuild ==
    (AfterBuild /\ dep.called /\ ~dep.exc /\ ~dep.ret) =>
        /\ BuildProcs = <<>>
        /\ written = <<>>
        /\ flags = <<>>
        /\ status = ToolName \o " not available."
        /\ app = "running"

C2_Witness ==
    /\ AfterBuild
    /\ dep.called /\ ~dep.exc /\ ~dep.ret
    /\ method_idx = 3
    /\ CheckedToken("windows")
    /\ status = "py2exe not available."

\* C3: in every state the checkbox list has one entry per flag descriptor
\* of the selected tool, the i-th labelled with the i-th descriptor, and the
\* layout holds exactly these checkboxes in that order, followed for index 5
\* (whose list is empty) by the informational label alone.
C3_PanelMatchesCatalog ==
    LET fds == TOOL_FLAGS[method_idx + 1]
    IN  /\ Len(checkboxes) = Len(fds)
        /\ \A i \in 1 .. Len(fds) :
              /\ checkboxes[i].text = fds[i][1] \o " (" \o fds[i][2] \o ")"
              /\ flags_layout[i].kind = "QCheckBox"
              /\ flags_layout[i].text = checkboxes[i].text
        /\ Len(flags_layout) = Len(fds) + (IF method_idx = 5 THEN 1 ELSE 0)
        /\ method_idx = 5 =>
              /\ checkboxes = <<>>
              /\ flags_layout[1].kind = "QLabel"

C3_Witness ==
    /\ handler = "show_flag_checkboxes"
    /\ method_idx = 5
    /\ Len(flags_layout) = 1
    /\ checkboxes = <<>>

\* C4: a change of the selected tool leaves every checkbox of the new panel
\* unchecked, and the flags a build collects are exactly the tokens of the
\* selected tool at the positions checked in the current panel, in order;
\* a build right after a change of tool collects none.
C4_SelectionDiscardsChecks ==
    [][/\ method_idx' # method_idx =>
             \A i \in DOMAIN checkboxes' : ~checkboxes'[i].checked
       /\ Proceeded' => flags' = ExpectedFlags'
       /\ (handler = "show_flag_checkboxes" /\ Proceeded') => flags' = <<>>]_vars

C4_Witness ==
    /\ Proceeded
    /\ method_idx = 2
    /\ flags = <<"base=Win32GUI">>

\* C5: for tool index 1, a build that got past the dependency check runs
\* [interpreter, '-m', 'PyInstaller', source path], then the tokens of the
\* checked boxes in catalog order, then '--hidden-import=colorama' as the
\* last element.
C5_PyInstallerVector ==
    (Proceeded /\ method_idx = 1) =>
        /\ Len(BuildProcs) = 1
        /\ BuildProcs[1].cmd =
              <<sys_executable, "-m", "PyInstaller", Str(file_path)>>
              \o ExpectedFlags
              \o <<"--hidden-import=colorama">>

C5_Witness ==
    /\ Proceeded
    /\ method_idx = 1
    /\ CheckedPositions = {1}
    /\ Len(BuildProcs) = 1
    /\ BuildProcs[1].cmd =
          <<"python", "-m", "PyInstaller", "/t/a.py", "--onefile",
            "--hidden-import=colorama">>

\* C6: for tool index 3 the descriptor written names 'windows' exactly when
\* the 'windows' box is checked and the 'console' box is not, and 'console'
\* in every other case; it is written whenever the temporary files could be
\* created.
C6_Py2exeMode ==
    (Proceeded /\ method_idx = 3) =>
        /\ written = <<>> <=> status = "Build failed: " \o str_e("OSError")
        /\ written # <<>> =>
              /\ Len(written) = 1
              /\ written[1].path = temp_dir \o "/setup_py2exe.py"
              /\ written[1].text =
                    py2exe_text(file_path,
                                IF CheckedToken("windows") /\ ~CheckedToken("console")
                                THEN "windows" ELSE "console")

C6_Witness ==
    /\ Proceeded
    /\ method_idx = 3
    /\ CheckedToken("windows")
    /\ ~CheckedToken("console")
    /\ Len(written) = 1
    /\ written[1].text = py2exe_text(file_path, "windows")

\* A failure of process p that build_exe gets to see: it could not be
\* started, or it was waited for and exited nonzero.
Seen(p) == p.outcome = "raise" \/ (p.wait /\ p.outcome = "nonzero")

\* C7 as stated: for every tool index, when a process started by the build
\* raises on launch or exits nonzero, the attempt ends with the status
\* 'Build failed: ' + the exception text and that process is the last one.
C7_AnyFailureReported ==
    AfterBuild =>
        \A i \in DOMAIN BuildProcs :
            BuildProcs[i].outcome # "ok" =>
                /\ status = "Build failed: " \o str_e(BuildProcs[i].outcome)
                /\ i = Len(BuildProcs)

\* C7 amended: the status is the failure message when a process of tool
\* index 0..4 raises on launch or exits nonzero, and when the launch of tool
\* index 5 raises; the failed process is the last one started and no command
\* is run twice.  The GUI tool of index 5 is not waited for: its nonzero exit
\* leaves the status 'Opened auto-py-to-exe GUI. ...'.
C7_SeenFailureReported ==
    AfterBuild =>
        /\ \A i \in DOMAIN BuildProcs :
              /\ BuildProcs[i].wait <=> method_idx \in 0 .. 4
              /\ Seen(BuildProcs[i]) =>
                    /\ status = "Build failed: " \o str_e(BuildProcs[i].outcome)
                    /\ i = Len(BuildProcs)
              /\ (~Seen(BuildProcs[i]) /\ BuildProcs[i].outcome # "ok") =>
                    /\ method_idx = 5
                    /\ status = "Opened auto-py-to-exe GUI. Use it to build your EXE."
        /\ \A i, j \in DOMAIN BuildProcs :
              BuildProcs[i].cmd = BuildProcs[j].cmd => i = j

C7_Witness ==
    /\ AfterBuild
    /\ method_idx = 5
    /\ Len(BuildProcs) = 1
    /\ BuildProcs[1].outcome = "raise"
    /\ status = "Build failed: [Errno 2] No such file or directory"

\* C8: no failure leaves the build handler: after every build attempt the
\* application is still running, with a status of the attempt set.
C8_NoFailureEscapes ==
    AfterBuild =>
        /\ app = "running"
        /\ status # "Select a Python script and builder. Then check attributes to use."

C10_PyoxidizerTwoSteps ==
    (Proceeded /\ method_idx = 4) =>
        /\ Len(BuildProcs) \in {1, 2}
        /\ BuildProcs[1].cmd = <<"pyoxidizer", "init-config", Str(file_path)>>
        /\ BuildProcs[1].wait
        /\ Len(BuildProcs) = 2 <=> BuildProcs[1].outcome = "ok"
        /\ Len(BuildProcs) = 2 =>
              /\ BuildProcs[2].wait
              /\ BuildProcs[2].cmd =
                    <<"pyoxidizer", "build">>
                    \o (IF CheckedToken("--release") THEN <<"--release">> ELSE <<>>)
                    \o (IF CheckedToken("--debug") THEN <<"--debug">> ELSE <<>>)
        /\ \A i \in DOMAIN BuildProcs : \A j \in DOMAIN BuildProcs[i].cmd :
              BuildProcs[i].cmd[j] # "single_binary=True"

C10_Witness ==
    /\ Proceeded
    /\ method_idx = 4
    /\ CheckedPositions = {1, 2, 3}
    /\ Len(BuildProcs) = 2
    /\ BuildProcs[2].cmd = <<"pyoxidizer", "build", "--release", "--debug">>
    /\ BuildProcs[2].outcome = "ok"

====
